---- MODULE Spec2Model ----
(***************************************************************************)
(* The NGO information scraper: the three script versions under            *)
(* src/versions (v1, v2, v3) as one state machine.  A run processes the    *)
(* seed URLs of the command line one after another; for each seed it       *)
(* fetches the page, extracts the five fields, cascades through subpages   *)
(* and (v2, v3) one PDF document, optionally (v1) asks for feedback, and   *)
(* saves the record.                                                       *)
(*                                                                         *)
(* Pages are abstract DOMs: a title, an h1, JSON-LD scripts, sections (a   *)
(* labelled text node, its enclosing tag, its text as whitespace-separated *)
(* tokens, its list), links, a <select> flag and the elements each known   *)
(* selector selects.  Strings the code cuts or validates character by      *)
(* character (years, founding dates) are sequences of one-character        *)
(* strings; every other string is an atomic value.                         *)
(***************************************************************************)
EXTENDS Integers, Sequences, FiniteSets, TLC

\* ------------------------------------------------------------------ bounds
\* seed URLs given on the command line
MaxUrls == 2
\* feedback rounds a user goes through in one handle_feedback call
MaxRounds == 2

\* datetime.now().year
CurrentYear == 2026

\* ----------------------------------------------------------- strings, text
Digit == {"0", "1", "2", "3", "4", "5", "6", "7", "8", "9"}

DigitVal(c) ==
    CASE c = "0" -> 0 [] c = "1" -> 1 [] c = "2" -> 2 [] c = "3" -> 3
      [] c = "4" -> 4 [] c = "5" -> 5 [] c = "6" -> 6 [] c = "7" -> 7
      [] c = "8" -> 8 [] c = "9" -> 9

DigitChr(n) ==
    CASE n = 0 -> "0" [] n = 1 -> "1" [] n = 2 -> "2" [] n = 3 -> "3"
      [] n = 4 -> "4" [] n = 5 -> "5" [] n = 6 -> "6" [] n = 7 -> "7"
      [] n = 8 -> "8" [] n = 9 -> "9"

IsDigits(s) == \A i \in 1..Len(s) : s[i] \in Digit

\* int(s) of a string of digits
RECURSIVE IntOf(_)
IntOf(s) ==
    IF Len(s) = 0 THEN 0
    ELSE 10 * IntOf(SubSeq(s, 1, Len(s) - 1)) + DigitVal(s[Len(s)])

\* str(n) of a natural number
RECURSIVE StrOf(_)
StrOf(n) ==
    IF n < 10 THEN <<DigitChr(n)>>
    ELSE Append(StrOf(n \div 10), DigitChr(n % 10))

\* s[:n]
Take(s, n) == SubSeq(s, 1, IF Len(s) < n THEN Len(s) ELSE n)

MinOf(S) == CHOOSE x \in S : \A y \in S : x <= y

SeqToSet(s) == {s[i] : i \in 1..Len(s)}

\* A token of page text: a word (k = "w"), a run of digits (k = "n", the
\* digits in d), an e-mail address, a phone number, or a line break.
W(s)   == [k |-> "w", s |-> s, d |-> <<>>]
N(d)   == [k |-> "n", s |-> "", d |-> d]
EM(s)  == [k |-> "email", s |-> s, d |-> <<>>]
PH(s)  == [k |-> "phone", s |-> s, d |-> <<>>]
NL     == [k |-> "nl", s |-> "", d |-> <<>>]

\* str.lower() on the words the patterns look for
Lower(s) ==
    CASE s = "Founded" -> "founded"
      [] s = "Since" -> "since"
      [] s = "India" -> "india"
      [] s = "Delhi" -> "delhi"
      [] s = "Kenya" -> "kenya"
      [] s = "Education" -> "education"
      [] s = "Health" -> "health"
      [] OTHER -> s

\* the index of the first token after i that is not a line break (\s*)
RECURSIVE Nxt(_, _)
Nxt(T, i) ==
    IF i + 1 > Len(T) THEN Len(T) + 1
    ELSE IF T[i + 1].k = "nl" THEN Nxt(T, i + 1) ELSE i + 1

KwAt(T, i, K) == i \in 1..Len(T) /\ T[i].k = "w" /\ Lower(T[i].s) \in K
NumAt(T, i)   == i \in 1..Len(T) /\ T[i].k = "n"

\* (19|20) at the start of a run of digits
Century(d) ==
    /\ Len(d) >= 2
    /\ \/ d[1] = "1" /\ d[2] = "9"
       \/ d[1] = "2" /\ d[2] = "0"

FirstIdx(S) == IF S = {} THEN 0 ELSE MinOf(S)

\* ------------------------------------------------------------------- pages
\* the selectors an override can name
Selectors == {"#est", ".item"}

\* no element selected
NoElems == [c \in Selectors |-> <<>>]

\* An element: its stripped text and the tokens of its text.
Elem(s, toks) == [s |-> s, toks |-> toks]

\* A section: a text node (label), the tag enclosing it (par), the rest of
\* the enclosing tag's text (toks), a list (ul) that is inside the enclosing
\* tag ("in"), follows it ("after") or does not exist ("none"), and the
\* mailto: / tel: links inside the enclosing tag ("" when there is none).
Sec(label, par, toks, ulAt, ul) ==
    [label |-> label, par |-> par, toks |-> toks, ulAt |-> ulAt, ul |-> ul,
     mailto |-> "", tel |-> ""]

Words(items) == [i \in 1..Len(items) |-> W(items[i])]

\* parent.text / parent.get_text() of the tag enclosing the section's label
ParText(s) ==
    (IF s.label = "" THEN <<>> ELSE <<W(s.label)>>) \o s.toks
        \o (IF s.ulAt = "in" THEN Words(s.ul) ELSE <<>>)

\* the section's part of the page text
SecText(s) ==
    (IF s.label = "" THEN <<>> ELSE <<W(s.label)>>) \o s.toks
        \o (IF s.ulAt = "none" THEN <<>> ELSE Words(s.ul))

RECURSIVE SecsText(_)
SecsText(secs) ==
    IF secs = <<>> THEN <<>>
    ELSE SecText(Head(secs)) \o <<NL>> \o SecsText(Tail(secs))

RECURSIVE ElemsText(_)
ElemsText(es) ==
    IF es = <<>> THEN <<>>
    ELSE Head(es).toks \o <<NL>> \o ElemsText(Tail(es))

\* soup.get_text(): the sections in document order, then the elements the
\* selectors select
GetText(soup) ==
    SecsText(soup.secs) \o ElemsText(soup.elems["#est"])
        \o ElemsText(soup.elems[".item"])

\* soup.select(custom)
Select(soup, custom) ==
    IF custom \in Selectors THEN soup.elems[custom] ELSE <<>>

\* ------------------------------------------------- year founded extractors
\* the token a keyword pattern "kw \s* (opt)? \s* digits" reaches from the
\* keyword at i
NumIdxAfter(T, i, Opt) ==
    LET j1 == Nxt(T, i)
    IN  IF KwAt(T, j1, Opt) THEN Nxt(T, j1) ELSE j1

\* re.search of "(?:K)\s*(?:Opt)?\s*<digits Ok>": the index of the digits of
\* the leftmost match, 0 when there is none
\* \d{4} unanchored: a run of at least 4 digits
AtLeast4(d) == Len(d) >= 4
\* (19|20)\d{2} with no \b after it (v2)
Century4Open(d) == Len(d) >= 4 /\ Century(d)
\* \b(19|20)\d{2}\b
Century4(d) == Len(d) = 4 /\ Century(d)

\* the digits part of a pattern, by name
NumOk(digits, d) ==
    CASE digits = "AtLeast4" -> AtLeast4(d)
      [] digits = "Century4Open" -> Century4Open(d)
      [] digits = "Century4" -> Century4(d)

KwNumSearch(T, K, Opt, digits) ==
    LET M == {i \in 1..Len(T) :
                /\ KwAt(T, i, K)
                /\ NumAt(T, NumIdxAfter(T, i, Opt))
                /\ NumOk(digits, T[NumIdxAfter(T, i, Opt)].d)}
    IN  IF M = {} THEN 0 ELSE NumIdxAfter(T, MinOf(M), Opt)

\* v1: the three keyword patterns, in order; each one's first match only
V1YearCandidates(T) ==
    LET p1 == KwNumSearch(T, {"founded", "established", "started"},
                          {"in", "on"}, "AtLeast4")
        p2a == {i \in 1..Len(T) :
                  /\ KwAt(T, i, {"year"})
                  /\ KwAt(T, Nxt(T, i), {"founded:", "established:"})
                  /\ NumAt(T, Nxt(T, Nxt(T, i)))
                  /\ AtLeast4(T[Nxt(T, Nxt(T, i))].d)}
        p2 == IF p2a = {} THEN 0 ELSE Nxt(T, Nxt(T, MinOf(p2a)))
        p3 == KwNumSearch(T, {"since"}, {}, "AtLeast4")
        idx == SelectSeq(<<p1, p2, p3>>, LAMBDA j : j # 0)
    IN  [n \in 1..Len(idx) |-> Take(T[idx[n]].d, 4)]

InRange(y) == 1900 <= IntOf(y) /\ IntOf(y) <= CurrentYear

\* re.findall(r'\d{4}', text): the successive 4-digit chunks of every run
RECURSIVE Chunks4(_)
Chunks4(d) ==
    IF Len(d) < 4 THEN <<>>
    ELSE <<SubSeq(d, 1, 4)>> \o Chunks4(SubSeq(d, 5, Len(d)))

RECURSIVE FindAll4(_)
FindAll4(T) ==
    IF T = <<>> THEN <<>>
    ELSE (IF Head(T).k = "n" THEN Chunks4(Head(T).d) ELSE <<>>)
             \o FindAll4(Tail(T))

\* the label matches (about\s*us|our\s*story|history), re.IGNORECASE
IsAboutLabel(l) == l \in {"About Us", "Our Story", "History"}

\* v1: the 4-digit chunks of the tags enclosing the about-like text nodes
RECURSIVE V1AboutCandidates(_)
V1AboutCandidates(secs) ==
    IF secs = <<>> THEN <<>>
    ELSE (IF IsAboutLabel(Head(secs).label)
             /\ Head(secs).par \in {"div", "section", "p"}
          THEN FindAll4(ParText(Head(secs))) ELSE <<>>)
             \o V1AboutCandidates(Tail(secs))

\* v1 extract_year_founded
V1ExtractYear(soup, custom) ==
    LET text == IF custom # ""
                THEN (IF Select(soup, custom) # <<>>
                      THEN Select(soup, custom)[1].toks ELSE <<>>)
                ELSE GetText(soup)
        c1 == SelectSeq(V1YearCandidates(text), InRange)
        c2 == SelectSeq(V1AboutCandidates(soup.secs), InRange)
    IN  IF c1 # <<>> THEN StrOf(IntOf(c1[1]))
        ELSE IF c2 # <<>> THEN StrOf(IntOf(c2[1]))
        ELSE <<>>

\* the override branch of v2 / v3: \b(19|20)\d{2}\b in the element's text
OverrideYear(soup, custom) ==
    IF custom = "" \/ Select(soup, custom) = <<>> THEN <<>>
    ELSE LET T == Select(soup, custom)[1].toks
             M == {i \in 1..Len(T) : NumAt(T, i) /\ Century4(T[i].d)}
         IN  IF M = {} THEN <<>> ELSE T[MinOf(M)].d

\* v2: the two page-text patterns; the value returned is group(1), the
\* (19|20) group, whenever a pattern matches
V2HeuristicYear(T) ==
    LET p1 == KwNumSearch(T, {"founded", "established", "started", "since"},
                          {"in"}, "Century4Open")
        p2 == FirstIdx({i \in 1..Len(T) :
                  /\ NumAt(T, i) /\ Century4(T[i].d)
                  /\ KwAt(T, Nxt(T, i), {"founded", "established"})})
    IN  IF p1 # 0 THEN Take(T[p1].d, 2)
        ELSE IF p2 # 0 THEN Take(T[p2].d, 2)
        ELSE <<>>

\* no line break between tokens i and j
SameLine(T, i, j) == \A m \in i..j : T[m].k # "nl"

V3HeuristicYear(T) ==
    LET p1 == KwNumSearch(T, {"founded", "established", "since"},
                          {"in"}, "Century4")
        p2 == FirstIdx({i \in 1..Len(T) :
                  /\ NumAt(T, i) /\ Century4(T[i].d)
                  /\ \E j \in (i + 1)..Len(T) :
                        /\ KwAt(T, j, {"founded", "established"})
                        /\ SameLine(T, i, j)})
    IN  IF p1 # 0 THEN Take(T[p1].d, 2)
        ELSE IF p2 # 0 THEN Take(T[p2].d, 2)
        ELSE <<>>

V2ExtractYear(soup, custom) ==
    IF OverrideYear(soup, custom) # <<>> THEN OverrideYear(soup, custom)
    ELSE V2HeuristicYear(GetText(soup))

V3ExtractYear(soup, custom) ==
    IF OverrideYear(soup, custom) # <<>> THEN OverrideYear(soup, custom)
    ELSE V3HeuristicYear(GetText(soup))

\* ----------------------------------------------------------- name extractor
\* str.strip() on the titles and headings of the pages
Strip(s) ==
    CASE s = " Acme Trust " -> "Acme Trust"
      [] s = "  " -> ""
      [] OTHER -> s

\* A title tag: absent ("none"), present with .string None ("nostring": an
\* empty title or one with child tags), or present with a string.
NoTitle     == [kind |-> "none", s |-> ""]
EmptyTitle  == [kind |-> "nostring", s |-> ""]
Title(s)    == [kind |-> "text", s |-> s]

\* the override branch shared by the three extract_ngo_name
HasElem(soup, custom) == custom # "" /\ Select(soup, custom) # <<>>

V1ExtractName(soup, custom) ==
    IF HasElem(soup, custom) THEN Select(soup, custom)[1].s
    ELSE IF soup.title.kind = "text" THEN Strip(soup.title.s)
    ELSE IF soup.h1.has THEN Strip(soup.h1.s)
    ELSE ""

\* v2: soup.title.string.strip() is evaluated whenever the title tag exists
V2NameRaises(soup, custom) ==
    ~HasElem(soup, custom) /\ soup.title.kind = "nostring"

V2ExtractName(soup, custom) ==
    IF HasElem(soup, custom) THEN Select(soup, custom)[1].s
    ELSE IF soup.title.kind = "text" THEN Strip(soup.title.s)
    ELSE ""

V3ExtractName(soup, custom) ==
    IF HasElem(soup, custom) THEN Select(soup, custom)[1].s
    ELSE IF soup.title.kind = "text" THEN Strip(soup.title.s)
    ELSE ""

\* ------------------------------------------- list extractors (keyword lists)
\* the keywords (lower case) a text node's string contains
KwOf(label) ==
    CASE label = "Our Programs" -> {"program", "programs"}
      [] label = "Our Work" -> {"work", "our work"}
      [] label = "Where We Work" -> {"work", "where we work"}
      [] label = "About Us" -> {"about us"}
      [] label = "History" -> {"history"}
      [] label = "Contact Us" -> {"contact us"}
      [] label = "Select State" -> {"select state"}
      [] OTHER -> {}

\* soup.find(text=re.compile(kw, re.I)): the first text node matching kw
FindText(secs, kw) ==
    FirstIdx({i \in 1..Len(secs) : kw \in KwOf(secs[i].label)})

\* the stripped texts of the selected elements
ElemTexts(es) == [i \in 1..Len(es) |-> es[i].s]
NonEmpty(items) == SelectSeq(items, LAMBDA x : x # "")

\* v1: for each keyword in order, the <li> items inside the div / section
\* enclosing the first text node that matches it
RECURSIVE V1KeywordList(_, _)
V1KeywordList(secs, kws) ==
    IF kws = <<>> THEN [found |-> FALSE, items |-> <<>>]
    ELSE LET i == FindText(secs, Head(kws))
         IN  IF /\ i # 0
                /\ secs[i].par \in {"div", "section"}
                /\ secs[i].ulAt = "in"
                /\ secs[i].ul # <<>>
             THEN [found |-> TRUE, items |-> NonEmpty(secs[i].ul)]
             ELSE V1KeywordList(secs, Tail(kws))

V1FieldKeywords ==
    <<"fields of work", "areas of focus", "our work", "programs",
      "initiatives", "what we do">>
V1AreaKeywords ==
    <<"operational areas", "where we work", "locations", "countries",
      "regions", "our reach">>
V1CommonFields ==
    <<"education", "health", "environment", "poverty alleviation",
      "women empowerment", "child welfare", "human rights",
      "disaster relief", "animal welfare">>

\* the word occurs in the lower-cased page text
InText(T, w) == \E i \in 1..Len(T) : T[i].k = "w" /\ Lower(T[i].s) = w

V1ExtractFields(soup, custom) ==
    IF HasElem(soup, custom) THEN NonEmpty(ElemTexts(Select(soup, custom)))
    ELSE LET l == V1KeywordList(soup.secs, V1FieldKeywords)
         IN  IF l.found THEN l.items
             ELSE SelectSeq(V1CommonFields,
                            LAMBDA f : InText(GetText(soup), f))

\* v2: the first <ul> inside the div / section / article, accepted with at
\* least two <li>
RECURSIVE V2KeywordList(_, _)
V2KeywordList(secs, kws) ==
    IF kws = <<>> THEN <<>>
    ELSE LET i == FindText(secs, Head(kws))
         IN  IF /\ i # 0
                /\ secs[i].par \in {"div", "section", "article"}
                /\ secs[i].ulAt = "in"
                /\ Len(secs[i].ul) >= 2
             THEN secs[i].ul
             ELSE V2KeywordList(secs, Tail(kws))

V2FieldKeywords == <<"program", "initiative", "project", "work", "focus">>
V3FieldKeywords == <<"program", "initiative", "project", "focus", "work">>

V2ExtractFields(soup, custom) ==
    IF custom # "" THEN NonEmpty(ElemTexts(Select(soup, custom)))
    ELSE V2KeywordList(soup.secs, V2FieldKeywords)

\* 'about' in i.lower()
HasAbout(item) == item \in {"About us", "about the team"}

\* v3: the next <ul> / <ol> after the enclosing tag opens (inside it or
\* following it), accepted with at least two <li> none of which says about
RECURSIVE V3KeywordList(_, _)
V3KeywordList(secs, kws) ==
    IF kws = <<>> THEN <<>>
    ELSE LET i == FindText(secs, Head(kws))
         IN  IF /\ i # 0
                /\ secs[i].par \in {"div", "section", "article"}
                /\ secs[i].ulAt \in {"in", "after"}
                /\ Len(secs[i].ul) >= 2
                /\ \A n \in 1..Len(secs[i].ul) : ~HasAbout(secs[i].ul[n])
             THEN secs[i].ul
             ELSE V3KeywordList(secs, Tail(kws))

V3ExtractFields(soup, custom) ==
    IF custom # "" THEN ElemTexts(Select(soup, custom))
    ELSE V3KeywordList(soup.secs, V3FieldKeywords)

\* ------------------------------------------------------- operational areas
V1Countries ==
    {"india", "united states", "usa", "uk", "canada", "australia", "africa",
     "asia", "europe", "latin america", "middle east", "brazil", "china",
     "france", "germany", "japan", "mexico", "nigeria", "south africa",
     "kenya", "ethiopia", "uganda"}
V2Countries ==
    {"india", "delhi", "mumbai", "pune", "odisha", "maharashtra",
     "karnataka", "tamil nadu", "usa", "uk", "africa", "asia"}
INDIAN_STATES ==
    {"Delhi", "Mumbai", "Pune", "Bangalore", "Kolkata", "Chennai",
     "Hyderabad", "Ahmedabad", "Jaipur", "Lucknow", "Patna", "Bhopal",
     "Ranchi", "Guwahati", "Odisha", "Maharashtra", "Karnataka",
     "Tamil Nadu", "Gujarat", "Rajasthan", "Uttar Pradesh", "Bihar",
     "Jharkhand", "Assam", "Punjab", "Haryana", "Madhya Pradesh",
     "West Bengal", "Telangana", "Andhra Pradesh"}

\* set(re.findall(pattern, text, re.I)): the matched words as the page
\* spells them
FindCountries(T, names) ==
    {T[i].s : i \in {j \in 1..Len(T) :
                        T[j].k = "w" /\ Lower(T[j].s) \in names}}

\* operational_areas is modelled as the set of its items
V1ExtractAreas(soup, custom) ==
    IF HasElem(soup, custom)
    THEN SeqToSet(NonEmpty(ElemTexts(Select(soup, custom))))
    ELSE LET l == V1KeywordList(soup.secs, V1AreaKeywords)
         IN  IF l.found THEN SeqToSet(l.items)
             ELSE FindCountries(GetText(soup), V1Countries)

V2ExtractAreas(soup, custom) ==
    IF custom # "" THEN SeqToSet(NonEmpty(ElemTexts(Select(soup, custom))))
    ELSE FindCountries(GetText(soup), V2Countries)

V3ExtractAreas(soup, custom) ==
    IF custom # "" THEN SeqToSet(ElemTexts(Select(soup, custom)))
    ELSE {st \in INDIAN_STATES :
            \E i \in 1..Len(GetText(soup)) :
                /\ GetText(soup)[i].k = "w"
                /\ Lower(GetText(soup)[i].s) = Lower(st)}

\* ------------------------------------------------------------ contact info
\* contact_info: None, or a dict with the keys whose value is not empty
NoneContact == [isNone |-> TRUE, email |-> "", phone |-> "", address |-> <<>>]
EmptyContact == [isNone |-> FALSE, email |-> "", phone |-> "", address |-> <<>>]
Contact(e, p, a) == [isNone |-> FALSE, email |-> e, phone |-> p, address |-> a]

\* bool(contact_info)
ContactTruthy(c) ==
    ~c.isNone /\ (c.email # "" \/ c.phone # "" \/ c.address # <<>>)

\* "contact if contact else None"
OrNone(c) == IF ContactTruthy(c) THEN c ELSE NoneContact

FirstOf(T, kind) == FirstIdx({i \in 1..Len(T) : T[i].k = kind})

\* the first e-mail address of the text, "" when there is none
FirstEmail(T) == IF FirstOf(T, "email") = 0 THEN "" ELSE T[FirstOf(T, "email")].s

\* The phone numbers of the pages, and what each pattern makes of them.
\* v1 and v2 match each of them whole.
PhoneA == "+91 9876543210"
PhoneB == "022-12345678"
PhoneC == "(022) 1234-5678"
PhoneD == "12 3456789"

FirstPhone(T) == IF FirstOf(T, "phone") = 0 THEN "" ELSE T[FirstOf(T, "phone")].s

\* v3: what phone_patterns[p] matches in the number, with every character
\* but digits and + removed; "" when the pattern does not match
V3PhoneMatch(raw, p) ==
    CASE raw = PhoneA /\ p = 1 -> "+919876543210"
      [] raw = PhoneA /\ p = 2 -> "919876543210"
      [] raw = PhoneA /\ p = 4 -> "9198765432"
      [] raw = PhoneB /\ p = 3 -> "02212345678"
      [] raw = PhoneB /\ p = 4 -> "02212345678"
      [] raw = PhoneD /\ p = 4 -> "123456789"
      [] OTHER -> ""

\* len(phone) of the normalised numbers
NormLen(ph) ==
    CASE ph = "+919876543210" -> 13
      [] ph = "919876543210" -> 12
      [] ph = "9198765432" -> 10
      [] ph = "02212345678" -> 11
      [] ph = "123456789" -> 9
      [] OTHER -> 0

\* v3: the patterns in priority order; each one's leftmost match is
\* normalised and accepted when it has at least 10 characters
RECURSIVE V3Phone(_, _)
V3Phone(T, p) ==
    IF p > 6 THEN ""
    ELSE LET i == FirstIdx({j \in 1..Len(T) :
                      T[j].k = "phone" /\ V3PhoneMatch(T[j].s, p) # ""})
         IN  IF i # 0 /\ NormLen(V3PhoneMatch(T[i].s, p)) >= 10
             THEN V3PhoneMatch(T[i].s, p)
             ELSE V3Phone(T, p + 1)

ManualSentinel == "not found automatically, check manually"

\* v1 address pattern: 1-5 digits, whitespace, then word characters and
\* whitespace as far as they go.  It starts at the first run of digits that
\* a word or another run of digits follows; a phone number ends in such a
\* run, and PhoneA and PhoneD hold a space between two runs.
AddressStart(T) ==
    FirstIdx({i \in 1..Len(T) :
                \/ /\ T[i].k \in {"n", "phone"}
                   /\ Nxt(T, i) <= Len(T)
                   /\ T[Nxt(T, i)].k \in {"w", "n"}
                \/ /\ T[i].k = "phone"
                   /\ T[i].s \in {PhoneA, PhoneD}})

RECURSIVE RunEnd(_, _)
RunEnd(T, i) ==
    IF i + 1 <= Len(T) /\ T[i + 1].k \in {"w", "n", "nl"}
    THEN RunEnd(T, i + 1) ELSE i

\* group(0).strip().replace('\n', ' '): the matched tokens without the breaks
V1Address(T) ==
    IF AddressStart(T) = 0 THEN <<>>
    ELSE SelectSeq(SubSeq(T, AddressStart(T), RunEnd(T, AddressStart(T))),
                   LAMBDA t : t.k # "nl")

IsContactLabel(l) == l \in {"Contact Us", "Get in touch"}

\* v1: the contact sections in order, each overwriting what the ones before
\* it found: mailto: / tel: links first, then the patterns on its text
RECURSIVE V1ContactSections(_, _)
V1ContactSections(secs, c) ==
    IF secs = <<>> THEN c
    ELSE LET s == Head(secs)
             hit == IsContactLabel(s.label)
                        /\ s.par \in {"div", "section", "footer"}
             e1 == IF s.mailto # "" THEN s.mailto ELSE c.email
             p1 == IF s.tel # "" THEN s.tel ELSE c.phone
             e2 == IF FirstEmail(ParText(s)) # ""
                   THEN FirstEmail(ParText(s)) ELSE e1
             p2 == IF FirstPhone(ParText(s)) # ""
                   THEN FirstPhone(ParText(s)) ELSE p1
         IN  V1ContactSections(Tail(secs),
                 IF hit THEN Contact(e2, p2, c.address) ELSE c)

V1ExtractContact(soup, custom) ==
    LET text == IF custom # ""
                THEN (IF Select(soup, custom) # <<>>
                      THEN Select(soup, custom)[1].toks ELSE <<>>)
                ELSE GetText(soup)
        c0 == Contact(FirstEmail(text), FirstPhone(text), V1Address(text))
    IN  IF ContactTruthy(c0) THEN c0
        ELSE OrNone(V1ContactSections(soup.secs, EmptyContact))

\* v2 and v3 ignore the override selector
V2ExtractContact(soup, custom) ==
    OrNone(Contact(FirstEmail(GetText(soup)), FirstPhone(GetText(soup)), <<>>))

\* soup.find('select') or soup.find(string=re.compile('select state'))
HasStateSelector(soup) ==
    soup.hasSelect \/ FindText(soup.secs, "select state") # 0

V3ExtractContact(soup, custom) ==
    LET ph == V3Phone(GetText(soup), 1)
    IN  OrNone(Contact(FirstEmail(GetText(soup)),
                       IF ph # "" THEN ph
                       ELSE IF HasStateSelector(soup) THEN ManualSentinel
                       ELSE "",
                       <<>>))

\* ------------------------------------------------------------------ JSON-LD
\* An item of a JSON-LD script.  fd: the foundingDate key (has), whether its
\* value is a string (isStr) and the value; name; areaServed: "absent", a
\* "list" of objects or a "dict" (names: the name of each, "" for none), a
\* list of plain strings ("strlist") or a plain string ("str"); cp: the
\* contactPoint objects, each with its @type, email and telephone.
NoFd   == [has |-> FALSE, isStr |-> TRUE, v |-> <<>>]
Fd(v)  == [has |-> TRUE, isStr |-> TRUE, v |-> v]
FdNum  == [has |-> TRUE, isStr |-> FALSE, v |-> <<>>]
NoArea == [kind |-> "absent", names |-> <<>>]
Item(type, fd, name, area, cp) ==
    [isDict |-> TRUE, type |-> type, fd |-> fd,
     name |-> [has |-> name # "", v |-> name], area |-> area, cp |-> cp]

\* what extract_from_json_ld has put into its result so far
NoJson ==
    [year |-> [set |-> FALSE, v |-> <<>>],
     name |-> [set |-> FALSE, v |-> ""],
     areas |-> [set |-> FALSE, v |-> {}],
     email |-> [set |-> FALSE, v |-> ""],
     phone |-> [set |-> FALSE, v |-> ""]]

V2Types == {"NGO", "Organization", "Nonprofit"}
V3Types == {"Organization", "NGO"}

\* the contactPoint loop of v2
RECURSIVE ApplyContactPoints(_, _)
ApplyContactPoints(jd, cps) ==
    IF cps = <<>> THEN jd
    ELSE LET c == Head(cps)
             j1 == IF c.type = "ContactPoint" /\ c.email # ""
                   THEN [jd EXCEPT !.email = [set |-> TRUE, v |-> c.email]]
                   ELSE jd
             j2 == IF c.type = "ContactPoint" /\ c.tel # ""
                   THEN [j1 EXCEPT !.phone = [set |-> TRUE, v |-> c.tel]]
                   ELSE j1
         IN  ApplyContactPoints(j2, Tail(cps))

\* One item: the result so far and whether the item raised.  An exception
\* leaves what was assigned before it.
ApplyItem(ver, jd, item) ==
    IF ~item.isDict THEN [jd |-> jd, raised |-> TRUE]
    ELSE IF item.type \notin (IF ver = 2 THEN V2Types ELSE V3Types)
    THEN [jd |-> jd, raised |-> FALSE]
    ELSE IF item.fd.has /\ ~item.fd.isStr THEN [jd |-> jd, raised |-> TRUE]
    ELSE
      LET j1 == IF item.fd.has
                THEN [jd EXCEPT !.year = [set |-> TRUE, v |-> Take(item.fd.v, 4)]]
                ELSE jd
          j2 == IF item.name.has
                THEN [j1 EXCEPT !.name = [set |-> TRUE, v |-> item.name.v]]
                ELSE j1
          k  == item.area.kind
          areaRaises == \/ k = "strlist"
                        \/ ver = 3 /\ k = "str"
          j3 == IF k = "list" \/ (ver = 3 /\ k = "dict")
                THEN [j2 EXCEPT !.areas =
                        [set |-> TRUE, v |-> SeqToSet(NonEmpty(item.area.names))]]
                ELSE IF k = "dict"
                THEN [j2 EXCEPT !.areas =
                        [set |-> TRUE, v |-> SeqToSet(item.area.names)]]
                ELSE j2
      IN  IF areaRaises THEN [jd |-> j2, raised |-> TRUE]
          ELSE IF ver = 2
          THEN [jd |-> ApplyContactPoints(j3, item.cp), raised |-> FALSE]
          ELSE [jd |-> j3, raised |-> FALSE]

\* the items of one script, up to the first that raises
RECURSIVE ApplyItems(_, _, _)
ApplyItems(ver, jd, items) ==
    IF items = <<>> THEN jd
    ELSE LET r == ApplyItem(ver, jd, Head(items))
         IN  IF r.raised THEN r.jd ELSE ApplyItems(ver, r.jd, Tail(items))

\* extract_from_json_ld: every script in order; a script that does not parse
\* is skipped
RECURSIVE ApplyScripts(_, _, _)
ApplyScripts(ver, jd, scripts) ==
    IF scripts = <<>> THEN jd
    ELSE ApplyScripts(ver,
             IF Head(scripts).ok
             THEN ApplyItems(ver, jd, Head(scripts).items) ELSE jd,
             Tail(scripts))

extract_from_json_ld(ver, soup) == ApplyScripts(ver, NoJson, soup.jsonld)

\* ----------------------------------------------------------- link discovery
\* the keywords a link text or an href (lower case) contains
WordsIn(str) ==
    CASE str = "about us" -> {"about", "about us"}
      [] str = "contact" -> {"contact"}
      [] str = "our team" -> {"team"}
      [] str = "history" -> {"history"}
      [] str = "our history" -> {"history"}
      [] str = "annual report" -> {"annual", "report"}
      [] str = "/about" -> {"about"}
      [] str = "/contact" -> {"contact"}
      [] str = "/team" -> {"team"}
      [] str = "/history#top" -> {"history"}
      [] str = "/history.pdf" -> {"history"}
      [] str = "/annual-report.pdf" -> {"annual", "report"}
      [] OTHER -> {}

\* href.lower().endswith('.pdf')
EndsWithPdf(href) == href \in {"/history.pdf", "/annual-report.pdf"}
\* '#' in full_url
HasHash(url) == url \in {"/history#top"}

\* an <a href>: its href (urljoin makes the URL fetched of it) and its text
Link(href, text) == [href |-> href, text |-> text]

\* any(k in text or k in href.lower() for k in kws)
LinkHas(l, kws) == (WordsIn(l.text) \cup WordsIn(l.href)) \cap kws # {}

V2SubKeywords == {"about", "history", "our story", "founding", "contact"}
V3SubKeywords == {"about", "history", "contact", "team", "state"}
V2PdfKeywords == {"report", "history", "founded", "annual"}
V3PdfKeywords == {"report", "annual"}

\* find_subpages_and_pdfs: the two sets the link loop collects
SubpageSet(ver, soup, base) ==
    {soup.links[i].href : i \in {j \in 1..Len(soup.links) :
        /\ LinkHas(soup.links[j],
                   IF ver = 2 THEN V2SubKeywords ELSE V3SubKeywords)
        /\ soup.links[j].href # base
        /\ ~HasHash(soup.links[j].href)}}

PdfSet(ver, soup) ==
    {soup.links[i].href : i \in {j \in 1..Len(soup.links) :
        /\ EndsWithPdf(soup.links[j].href)
        /\ WordsIn(soup.links[j].text)
              \cap (IF ver = 2 THEN V2PdfKeywords ELSE V3PdfKeywords) # {}}}

\* list(set(...)): the order of a set of strings is not fixed
Orders(S) ==
    {q \in [1..Cardinality(S) -> S] :
        \A i, j \in 1..Cardinality(S) : i # j => q[i] # q[j]}

\* v1 find_and_fetch_subpage: the first link whose text holds a keyword
V1AboutKeywords ==
    {"about", "about us", "our story", "history", "who we are", "mission"}
V1ContactKeywords == {"contact", "contact us", "get in touch", "reach us"}

V1FindLink(soup, kws) ==
    FirstIdx({i \in 1..Len(soup.links) :
                WordsIn(soup.links[i].text) \cap kws # {}})

\* -------------------------------------------------------------- the inputs
Y(a, b, c, d) == <<a, b, c, d>>
Date19980501 == <<"1", "9", "9", "8", "-", "0", "5", "-", "0", "1">>
Date2001     == <<"2", "0", "0", "1">>
Date1987     == <<"1", "9", "8", "7", "-", "0", "1">>

Page(title, h1, jsonld, secs, links, hasSelect, elems) ==
    [title |-> title, h1 |-> h1, jsonld |-> jsonld, secs |-> secs,
     links |-> links, hasSelect |-> hasSelect, elems |-> elems]

NoH1 == [has |-> FALSE, s |-> ""]
BlankPage == Page(NoTitle, NoH1, <<>>, <<>>, <<>>, FALSE, NoElems)

Script(items) == [ok |-> TRUE, items |-> items]
BadScript == [ok |-> FALSE, items |-> <<>>]
CP(email, tel) == [type |-> "ContactPoint", email |-> email, tel |-> tel]

\* the <title>, <h1> and JSON-LD scripts of the seed pages
Heads ==
    { [title |-> NoTitle, h1 |-> NoH1, jsonld |-> <<>>],
      [title |-> Title(" Acme Trust "), h1 |-> NoH1, jsonld |-> <<>>],
      [title |-> EmptyTitle, h1 |-> [has |-> TRUE, s |-> "Acme"],
       jsonld |-> <<>>],
      [title |-> NoTitle, h1 |-> NoH1,
       jsonld |-> <<Script(<<Item("Organization", Fd(Date19980501), "Acme",
                                   [kind |-> "list", names |-> <<"Kenya", "">>],
                                   <<CP("ld@acme.org", PhoneA)>>)>>)>>],
      [title |-> Title("Acme"), h1 |-> NoH1,
       jsonld |-> <<BadScript,
                    Script(<<Item("NGO", Fd(Date2001), "",
                                  [kind |-> "dict", names |-> <<"">>], <<>>),
                             Item("Person", Fd(Date1987), "Bo", NoArea, <<>>)>>),
                    Script(<<Item("Nonprofit", Fd(Date1987), "",
                                  [kind |-> "str", names |-> <<>>], <<>>)>>)>>],
      [title |-> NoTitle, h1 |-> NoH1,
       jsonld |-> <<Script(<<Item("Organization", Fd(<<>>), "Acme", NoArea,
                                  <<>>),
                             Item("Organization", FdNum, "Zed", NoArea,
                                  <<>>)>>)>>] }

\* the elements of a page that has the elements the selectors name
SomeElems ==
    [c \in Selectors |->
       IF c = "#est"
       THEN <<Elem("Est. 1998", <<W("Est."), N(Y("1", "9", "9", "8"))>>)>>
       ELSE <<Elem("Water", <<W("Water")>>), Elem("", <<>>)>>]

Body(secs, elems, hasSelect) ==
    [secs |-> secs, elems |-> elems, hasSelect |-> hasSelect]

\* the bodies of the pages: their sections, the elements the selectors
\* select, and whether there is a <select>
BlankBody == Body(<<>>, NoElems, FALSE)
YearBody ==
    Body(<<Sec("", "p", <<W("Founded"), W("in"), N(Y("1", "9", "9", "8"))>>,
               "none", <<>>)>>, NoElems, FALSE)
AboutBody ==
    Body(<<Sec("About Us", "div",
               <<N(Y("2", "1", "5", "0")), N(Y("1", "9", "8", "5")),
                 W("established")>>, "none", <<>>)>>, SomeElems, FALSE)
OneItemBody ==
    Body(<<Sec("", "p", <<W("since"), N(<<"2", "0", "9", "9", "1">>)>>,
               "none", <<>>),
           Sec("Our Programs", "div", <<>>, "in", <<"Education">>)>>,
         NoElems, FALSE)
ListBody ==
    Body(<<Sec("Our Programs", "div", <<>>, "in", <<"Education", "Health">>),
           Sec("Where We Work", "section", <<W("India"), W("Delhi")>>,
               "after", <<"Kenya", "About us">>)>>, NoElems, FALSE)
EmailBody ==
    Body(<<Sec("", "p", <<EM("info@acme.org")>>, "none", <<>>)>>,
         NoElems, FALSE)
PhoneBody ==
    Body(<<Sec("", "p", <<PH(PhoneB)>>, "none", <<>>)>>, NoElems, TRUE)
FullBody ==
    Body(<<Sec("", "p", <<EM("office@acme.org"), PH(PhoneA)>>, "none", <<>>),
           Sec("", "p", <<W("founded"), N(Y("2", "0", "1", "0"))>>,
               "none", <<>>)>>, SomeElems, FALSE)
FooterBody ==
    Body(<<[Sec("Contact Us", "footer", <<>>, "none", <<>>)
               EXCEPT !.mailto = "hello@acme.org", !.tel = PhoneC]>>,
         NoElems, TRUE)

Bodies ==
    {BlankBody, YearBody, AboutBody, OneItemBody, ListBody, EmailBody,
     PhoneBody, FullBody, FooterBody}

\* the links of the seed pages: none, two subpages and a document, and more
\* subpages and documents than parse_ngo goes through
NoLinks == <<>>
FewLinks ==
    <<Link("/about", "about us"), Link("/contact", "contact"),
      Link("/annual-report.pdf", "annual report")>>
ManyLinks ==
    <<Link("/history#top", "history"), Link("/team", "our team"),
      Link("/about", "about us"), Link("/contact", "contact"),
      Link("/about", "about us"), Link("/history.pdf", "our history"),
      Link("/annual-report.pdf", "annual report")>>


SeedPages ==
    { Page(h.title, h.h1, h.jsonld, b.secs, l, b.hasSelect, b.elems) :
        h \in Heads, b \in Bodies, l \in {NoLinks, FewLinks} }
    \cup
    { Page(NoTitle, NoH1, <<>>, b.secs, ManyLinks, b.hasSelect, b.elems) :
        b \in Bodies }

\* what a subpage can hold
SubPages ==
    { Page(NoTitle, NoH1, <<>>, b.secs, <<>>, b.hasSelect, b.elems) :
        b \in {BlankBody, YearBody, ListBody, EmailBody, PhoneBody, FullBody} }

\* the text of a document
PdfTexts ==
    { <<W("annual"), W("report")>>,
      <<W("founded"), N(Y("1", "0", "6", "6"))>>,
      <<W("Since"), W("in"), N(<<"2", "0", "0", "5", "1">>)>> }

\* the command line: MaxUrls seed URLs
Domains == {"a.org", "b.org"}
UrlAt(i) == IF i % 2 = 1 THEN "a.org" ELSE "b.org"

Fields ==
    {"ngo_name", "year_founded", "fields_of_work", "operational_areas",
     "contact_info"}
NoCustom == [f \in Fields |-> ""]

\* the override stores custom_selectors.json can hold at startup
CustomStores ==
    { [d \in Domains |-> NoCustom],
      [d \in Domains |->
         IF d = "a.org" THEN [NoCustom EXCEPT !["year_founded"] = "#est"]
         ELSE NoCustom],
      [d \in Domains |->
         IF d = "a.org"
         THEN [f \in Fields |-> IF f = "year_founded" THEN "#gone" ELSE ".item"]
         ELSE NoCustom] }

\* ------------------------------------------------------------------- state
VARIABLES
    ver,         \* the script that runs: 1, 2 or 3
    pw,          \* --use-playwright
    pwAvail,     \* PLAYWRIGHT_AVAILABLE
    noFeedback,  \* --no-feedback (v1)
    answer,      \* history: what the user typed in the last feedback round
    twin,        \* what a second run finds for the links of the same page
    entry,       \* history: the record and overrides handle_feedback started with
    customs,     \* the override store in memory
    file,        \* custom_selectors.json
    pc,          \* where the run is
    urlIdx,      \* the seed URL being processed (index on the command line)
    soup,        \* the seed page
    data,        \* the record of the seed
    seedData,    \* history: the record at the end of the seed-page pass
    subpages,    \* find_subpages_and_pdfs: the subpage list
    pdfs,        \* find_subpages_and_pdfs: the PDF list
    subIdx,      \* subpages of this seed the loop has gone through
    missing,     \* v1: the missing list
    rounds,      \* v1: feedback rounds gone through for this seed
    saved,       \* the seeds (indexes) whose record was written
    exc,         \* the uncaught exception that ended the process, "" if none
    fetched      \* history: the fetches of this seed, in order

vars == <<ver, pw, pwAvail, noFeedback, answer, twin, entry, customs, file, pc, urlIdx, soup, data,
          seedData, subpages, pdfs, subIdx, missing, rounds, saved, exc,
          fetched>>

\* the subpages[:2] and pdfs[:1] slices of parse_ngo
MaxSub == 2
MaxPdf == 1

InitData(url) ==
    [ngo_name |-> "", year_founded |-> <<>>, fields_of_work |-> <<>>,
     operational_areas |-> {}, contact_info |-> EmptyContact,
     contact_email |-> "", contact_phone |-> "", website_url |-> url]

\* the command-line flags, the import result and the stored overrides a run
\* can start with: every version without feedback, v2 and v3 also with
\* --use-playwright
Configs ==
    { [ver |-> v, pw |-> FALSE, pwAvail |-> TRUE, noFeedback |-> TRUE,
       file |-> f] : v \in {1, 2, 3}, f \in CustomStores }
    \cup
    { [ver |-> v, pw |-> TRUE, pwAvail |-> a, noFeedback |-> TRUE,
       file |-> [d \in Domains |-> NoCustom]] :
        v \in {2, 3}, a \in BOOLEAN }

\* v2 and v3 on plain requests, for the comparison of two runs
TwinConfigs ==
    { [ver |-> v, pw |-> FALSE, pwAvail |-> TRUE, noFeedback |-> TRUE,
       file |-> f] : v \in {2, 3}, f \in CustomStores }

\* v1 run interactively
FeedbackConfigs ==
    { [ver |-> 1, pw |-> FALSE, pwAvail |-> TRUE, noFeedback |-> nf,
       file |-> f] : f \in CustomStores, nf \in BOOLEAN }

\* no second run yet
NoTwin == [ran |-> FALSE, subpages |-> <<>>, pdfs |-> <<>>]

\* handle_feedback has not reached its loop
NoEntry == [on |-> FALSE, data |-> InitData(""), custom |-> NoCustom]

\* nothing typed yet
NoAnswer == [field |-> "", selector |-> "", update |-> FALSE]

InitWith(cs) ==
    /\ \E c \in cs :
          /\ ver = c.ver
          /\ pw = c.pw
          /\ pwAvail = c.pwAvail
          /\ noFeedback = c.noFeedback
          /\ file = c.file
    /\ answer = NoAnswer
    /\ twin = NoTwin
    /\ entry = NoEntry
    /\ customs = [d \in Domains |-> NoCustom]
    /\ pc = "start"
    /\ urlIdx = 0
    /\ soup = BlankPage
    /\ data = InitData("")
    /\ seedData = InitData("")
    /\ subpages = <<>>
    /\ pdfs = <<>>
    /\ subIdx = 0
    /\ missing = {}
    /\ rounds = 0
    /\ saved = {}
    /\ exc = ""
    /\ fetched = <<>>

Init == InitWith(Configs)
InitFeedback == InitWith(FeedbackConfigs)
InitTwin == InitWith(TwinConfigs)

\* the domain of the current seed and its overrides
Domain == UrlAt(urlIdx)
\* v3 reads custom_selectors.json in every parse_ngo; v1 and v2 use the store
\* loaded at startup
Custom == IF ver = 3 THEN file[Domain] ELSE customs[Domain]

Crash(name) ==
    /\ pc' = "crashed"
    /\ exc' = name

\* __main__ up to the loop: the Playwright check (v2, v3: exit(1)) and
\* load_custom_selectors (v1, v2)
Start ==
    /\ pc = "start"
    /\ pc' = IF ver \in {2, 3} /\ pw /\ ~pwAvail THEN "exit1" ELSE "next"
    /\ customs' = IF ver \in {1, 2} THEN file ELSE customs
    /\ UNCHANGED <<ver, pw, pwAvail, noFeedback, twin, entry, answer, file, urlIdx, soup, data,
                   seedData, subpages, pdfs, subIdx, missing, rounds, saved,
                   exc, fetched>>

\* fetch_page takes the Playwright branch, where nothing catches a failure
Rendering == ver \in {2, 3} /\ pw /\ pwAvail

\* what a page fetch can give: a page, or a failure
Failed == [ok |-> FALSE, page |-> BlankPage]
Got(p) == [ok |-> TRUE, page |-> p]
FetchResults(pages) == {Failed} \cup {Got(p) : p \in pages}

\* the pages of an interactive run: fewer, the answers of the user come on top
InteractiveSeedPages ==
    { Page(NoTitle, NoH1, <<>>, b.secs, FewLinks, b.hasSelect, b.elems) :
        b \in {BlankBody, AboutBody, OneItemBody, FullBody} }
InteractiveSubPages ==
    { Page(NoTitle, NoH1, <<>>, b.secs, <<>>, b.hasSelect, b.elems) :
        b \in {BlankBody, FullBody} }
SeedInputs == IF noFeedback THEN SeedPages ELSE InteractiveSeedPages
SubInputs == IF noFeedback THEN SubPages ELSE InteractiveSubPages

\* an entry of the fetch history: what was fetched and what came back
Fetch(kind, url, r) ==
    [kind |-> kind, url |-> url, ok |-> r.ok, page |-> r.page, text |-> <<>>]
PdfFetch(url, r) ==
    [kind |-> "pdf", url |-> url, ok |-> r.ok, page |-> BlankPage,
     text |-> r.text]

\* the next seed URL: fetch_page(url); a seed that cannot be fetched is
\* skipped (requests) or ends the process (Playwright)
FetchSeed ==
    /\ pc = "next"
    /\ urlIdx < MaxUrls
    /\ urlIdx' = urlIdx + 1
    /\ \E r \in FetchResults(SeedInputs) :
          /\ fetched' = <<Fetch("seed", UrlAt(urlIdx + 1), r)>>
          /\ IF r.ok
             THEN /\ soup' = r.page
                  /\ pc' = IF ver = 1 THEN "seed" ELSE "jsonld"
                  /\ exc' = exc
             ELSE /\ soup' = BlankPage
                  /\ IF Rendering THEN Crash("PlaywrightError")
                     ELSE pc' = "next" /\ exc' = exc
    /\ data' = InitData(UrlAt(urlIdx + 1))
    /\ seedData' = InitData(UrlAt(urlIdx + 1))
    /\ subpages' = <<>>
    /\ pdfs' = <<>>
    /\ subIdx' = 0
    /\ missing' = {}
    /\ rounds' = 0
    /\ UNCHANGED <<ver, pw, pwAvail, noFeedback, twin, entry, answer, customs, file, saved>>

\* data.update(extract_from_json_ld(soup))
UpdateFromJson(d, jd) ==
    [d EXCEPT
       !.year_founded = IF jd.year.set THEN jd.year.v ELSE @,
       !.ngo_name = IF jd.name.set THEN jd.name.v ELSE @,
       !.operational_areas = IF jd.areas.set THEN jd.areas.v ELSE @,
       !.contact_email = IF jd.email.set THEN jd.email.v ELSE @,
       !.contact_phone = IF jd.phone.set THEN jd.phone.v ELSE @]

JsonLd ==
    /\ pc = "jsonld"
    /\ data' = UpdateFromJson(data, extract_from_json_ld(ver, soup))
    /\ pc' = "seed"
    /\ UNCHANGED <<ver, pw, pwAvail, noFeedback, twin, entry, answer, customs, file, urlIdx, soup,
                   seedData, subpages, pdfs, subIdx, missing, rounds, saved,
                   exc, fetched>>

ExtractName(v, s, c) ==
    IF v = 1 THEN V1ExtractName(s, c)
    ELSE IF v = 2 THEN V2ExtractName(s, c) ELSE V3ExtractName(s, c)
ExtractYear(v, s, c) ==
    IF v = 1 THEN V1ExtractYear(s, c)
    ELSE IF v = 2 THEN V2ExtractYear(s, c) ELSE V3ExtractYear(s, c)
ExtractFields(v, s, c) ==
    IF v = 1 THEN V1ExtractFields(s, c)
    ELSE IF v = 2 THEN V2ExtractFields(s, c) ELSE V3ExtractFields(s, c)
ExtractAreas(v, s, c) ==
    IF v = 1 THEN V1ExtractAreas(s, c)
    ELSE IF v = 2 THEN V2ExtractAreas(s, c) ELSE V3ExtractAreas(s, c)
ExtractContact(v, s, c) ==
    IF v = 1 THEN V1ExtractContact(s, c)
    ELSE IF v = 2 THEN V2ExtractContact(s, c) ELSE V3ExtractContact(s, c)

\* "data[f] = data[f] or extract_f(soup, custom.get(f))" for the five fields
SeedYearOverwrites(d, v, s, c) ==
    IF ExtractYear(v, s, c["year_founded"]) # <<>>
    THEN ExtractYear(v, s, c["year_founded"])
    ELSE d.year_founded
SeedYear(d, v, s, c) ==
    IF d.year_founded # <<>> THEN d.year_founded
    ELSE ExtractYear(v, s, c["year_founded"])

SeedFill(d, v, s, c) ==
    [d EXCEPT
       !.ngo_name = IF @ # "" THEN @ ELSE ExtractName(v, s, c["ngo_name"]),
       !.year_founded = SeedYear(d, v, s, c),
       !.fields_of_work =
            IF @ # <<>> THEN @ ELSE ExtractFields(v, s, c["fields_of_work"]),
       !.operational_areas =
            IF @ # {} THEN @ ELSE ExtractAreas(v, s, c["operational_areas"]),
       !.contact_info =
            IF ContactTruthy(@) THEN @
            ELSE ExtractContact(v, s, c["contact_info"])]

\* v2, v3: the main-page extraction of parse_ngo
SeedExtract ==
    /\ pc = "seed"
    /\ ver \in {2, 3}
    /\ IF ver = 2 /\ data.ngo_name = "" /\ V2NameRaises(soup, Custom["ngo_name"])
       THEN /\ Crash("AttributeError")
            /\ UNCHANGED <<data, seedData>>
       ELSE /\ data' = SeedFill(data, ver, soup, Custom)
            /\ seedData' = data'
            /\ pc' = "discover"
            /\ exc' = exc
    /\ UNCHANGED <<ver, pw, pwAvail, noFeedback, twin, entry, answer, customs, file, urlIdx, soup,
                   subpages, pdfs, subIdx, missing, rounds, saved, fetched>>

Min2(a, b) == IF a < b THEN a ELSE b

\* "for sub_url in subpages[:2]": how many of the links found are fetched
SubLimitAll(sp) == Len(sp)
SubLimit(sp) == Min2(MaxSub, Len(sp))

\* find_subpages_and_pdfs
Discover ==
    /\ pc = "discover"
    /\ subpages' \in Orders(SubpageSet(ver, soup, Domain))
    /\ pdfs' \in Orders(PdfSet(ver, soup))
    /\ subIdx' = 0
    /\ pc' = IF SubpageSet(ver, soup, Domain) = {} THEN "pdf" ELSE "sub"
    /\ UNCHANGED <<ver, pw, pwAvail, noFeedback, twin, entry, answer, customs, file, urlIdx, soup,
                   data, seedData, missing, rounds, saved, exc, fetched>>

\* find_subpages_and_pdfs in a second run of the script on the same page:
\* list(set(...)) gives the links in the order of that process
DiscoverTwin ==
    /\ pc \in {"sub", "pdf"}
    /\ subIdx = 0
    /\ Len(fetched) = 1
    /\ ~twin.ran
    /\ \E sp \in Orders(SubpageSet(ver, soup, Domain)),
          pd \in Orders(PdfSet(ver, soup)) :
          twin' = [ran |-> TRUE, subpages |-> sp, pdfs |-> pd]
    /\ UNCHANGED <<ver, pw, pwAvail, noFeedback, answer, entry, customs, file, pc,
                   urlIdx, soup, data, seedData, subpages, pdfs, subIdx,
                   missing, rounds, saved, exc, fetched>>

\* dict.update
ContactUpdate(c, new) ==
    Contact(IF new.email # "" THEN new.email ELSE c.email,
            IF new.phone # "" THEN new.phone ELSE c.phone,
            IF new.address # <<>> THEN new.address ELSE c.address)

\* v2: the contact step of the subpage loop looks at a subpage
V2WantsContact(d) ==
    ~ContactTruthy(d.contact_info) \/ d.contact_info.email = ""

\* one subpage of v2: the record after it, or AttributeError when
\* data['contact_info'] is None and the subpage has contact data
V2SubRaises(d, sub, c) ==
    /\ V2WantsContact(d)
    /\ ContactTruthy(V2ExtractContact(sub, c["contact_info"]))
    /\ d.contact_info.isNone

SubYear(d, v, sub, c) ==
    IF d.year_founded # <<>> THEN d.year_founded
    ELSE ExtractYear(v, sub, IF v = 2 THEN c["year_founded"] ELSE "")

SubFields(d, v, sub, c) ==
    IF d.fields_of_work # <<>> THEN d.fields_of_work
    ELSE ExtractFields(v, sub, IF v = 2 THEN c["fields_of_work"] ELSE "")

V2SubContact(d, sub, c) ==
    IF V2WantsContact(d)
          /\ ContactTruthy(V2ExtractContact(sub, c["contact_info"]))
    THEN ContactUpdate(d.contact_info, V2ExtractContact(sub, c["contact_info"]))
    ELSE d.contact_info

\* v3: data['contact_info'].get('phone') is evaluated for every subpage
V3SubRaises(d) == d.contact_info.isNone

V3SubContact(d, sub) ==
    IF d.contact_info.phone = "" /\ ContactTruthy(V3ExtractContact(sub, ""))
    THEN ContactUpdate(d.contact_info, V3ExtractContact(sub, ""))
    ELSE d.contact_info

SubRaises(d, v, sub, c) ==
    IF v = 2 THEN V2SubRaises(d, sub, c) ELSE V3SubRaises(d)

SubUpdate(d, v, sub, c) ==
    [d EXCEPT
       !.year_founded = SubYear(d, v, sub, c),
       !.fields_of_work = SubFields(d, v, sub, c),
       !.contact_info = IF v = 2 THEN V2SubContact(d, sub, c)
                        ELSE V3SubContact(d, sub)]

\* what the assignments before the exception leave in the record
SubPartial(d, v, sub, c) ==
    [d EXCEPT
       !.year_founded = SubYear(d, v, sub, c),
       !.fields_of_work = SubFields(d, v, sub, c)]

\* one turn of "for sub_url in subpages[:2]"
SubPage ==
    /\ pc = "sub"
    /\ subIdx < SubLimit(subpages)
    /\ subIdx' = subIdx + 1
    /\ \E r \in FetchResults(SubInputs) :
          /\ fetched' = Append(fetched, Fetch("sub", subpages[subIdx + 1], r))
          /\ IF ~r.ok
             THEN /\ data' = data
                  /\ IF Rendering THEN Crash("PlaywrightError")
                     ELSE /\ pc' = IF subIdx + 1 < SubLimit(subpages)
                                   THEN "sub" ELSE "pdf"
                          /\ exc' = exc
             ELSE IF SubRaises(data, ver, r.page, Custom)
             THEN /\ data' = SubPartial(data, ver, r.page, Custom)
                  /\ Crash("AttributeError")
             ELSE /\ data' = SubUpdate(data, ver, r.page, Custom)
                  /\ pc' = IF subIdx + 1 < SubLimit(subpages)
                           THEN "sub" ELSE "pdf"
                  /\ exc' = exc
    /\ UNCHANGED <<ver, pw, pwAvail, noFeedback, twin, entry, answer, customs, file, urlIdx, soup,
                   seedData, subpages, pdfs, missing, rounds, saved>>

\* extract_from_pdf: the year its pattern finds in the document's text, <<>>
\* when the fetch or the parse fails or nothing matches
PdfFailed == [ok |-> FALSE, text |-> <<>>]
PdfResults == {PdfFailed} \cup {[ok |-> TRUE, text |-> t] : t \in PdfTexts}

extract_from_pdf(r) ==
    IF ~r.ok THEN <<>>
    ELSE LET i == KwNumSearch(r.text, {"founded", "established", "since"},
                              {"in"}, "AtLeast4")
         IN  IF i = 0 THEN <<>> ELSE Take(r.text[i].d, 4)

\* the try / except around the whole body of extract_from_pdf: no exception
\* of the fetch or of the parse leaves it
PdfRaisesUncaught(r) == ~r.ok
PdfRaises(r) == FALSE

PdfYear(d, r) ==
    IF extract_from_pdf(r) # <<>> /\ d.year_founded = <<>>
    THEN extract_from_pdf(r) ELSE d.year_founded

\* "for pdf_url in pdfs[:1]", then return data
PdfPass ==
    /\ pc = "pdf"
    /\ IF pdfs = <<>>
       THEN /\ UNCHANGED <<data, fetched, exc>>
            /\ pc' = "return"
       ELSE \E r \in PdfResults :
              /\ data' = [data EXCEPT !.year_founded = PdfYear(data, r)]
              /\ fetched' = Append(fetched, PdfFetch(pdfs[1], r))
              /\ IF PdfRaises(r) THEN Crash("RequestException")
                 ELSE pc' = "return" /\ exc' = exc
    /\ UNCHANGED <<ver, pw, pwAvail, noFeedback, twin, entry, answer, customs, file, urlIdx, soup,
                   seedData, subpages, pdfs, subIdx, missing, rounds, saved>>

\* __main__: the record is written to <domain>.json and the iteration ends
Save ==
    /\ pc = "return"
    /\ saved' = saved \cup {urlIdx}
    /\ pc' = "next"
    /\ soup' = BlankPage
    /\ data' = InitData("")
    /\ seedData' = InitData("")
    /\ subpages' = <<>>
    /\ pdfs' = <<>>
    /\ subIdx' = 0
    /\ missing' = {}
    /\ rounds' = 0
    /\ fetched' = <<>>
    /\ UNCHANGED <<ver, pw, pwAvail, noFeedback, twin, customs, file, urlIdx, exc>>
    /\ answer' = NoAnswer
    /\ entry' = NoEntry

\* the loop over args.urls is over
Finish ==
    /\ pc = "next"
    /\ urlIdx = MaxUrls
    /\ pc' = "finished"
    /\ UNCHANGED <<ver, pw, pwAvail, noFeedback, twin, entry, answer, customs, file, urlIdx, soup,
                   data, seedData, subpages, pdfs, subIdx, missing, rounds,
                   saved, exc, fetched>>

\* ----------------------------------------------------------------- v1 only
Extracted(v, f, s, c) ==
    CASE f = "ngo_name" -> ExtractName(v, s, c)
      [] f = "year_founded" -> ExtractYear(v, s, c)
      [] f = "fields_of_work" -> ExtractFields(v, s, c)
      [] f = "operational_areas" -> ExtractAreas(v, s, c)
      [] f = "contact_info" -> ExtractContact(v, s, c)

\* bool(value) of a field's value
Truthy(f, val) ==
    CASE f = "ngo_name" -> val # ""
      [] f = "year_founded" -> val # <<>>
      [] f = "fields_of_work" -> val # <<>>
      [] f = "operational_areas" -> val # {}
      [] f = "contact_info" -> ContactTruthy(val)

\* [k for k, v in data.items() if not v and k != 'website_url']
Missing(d) == {f \in Fields : ~Truthy(f, d[f])}

\* parse_page: the initial extraction from the main page
V1SeedData(url, s, c) ==
    [InitData(url) EXCEPT
       !.ngo_name = V1ExtractName(s, c["ngo_name"]),
       !.year_founded = V1ExtractYear(s, c["year_founded"]),
       !.fields_of_work = V1ExtractFields(s, c["fields_of_work"]),
       !.operational_areas = V1ExtractAreas(s, c["operational_areas"]),
       !.contact_info = V1ExtractContact(s, c["contact_info"])]

V1SeedExtract ==
    /\ pc = "seed"
    /\ ver = 1
    /\ data' = V1SeedData(Domain, soup, Custom)
    /\ seedData' = data'
    /\ missing' = Missing(data')
    /\ pc' = IF Missing(data') = {} THEN "feedback" ELSE "about"
    /\ UNCHANGED <<ver, pw, pwAvail, noFeedback, twin, entry, answer, customs, file, urlIdx, soup,
                   subpages, pdfs, subIdx, rounds, saved, exc, fetched>>

V1AboutFields == {"year_founded", "fields_of_work", "operational_areas"}

\* "if val: data[field] = val" for the fields of fs that are missing
V1Fill(d, fs, sub, c) ==
    [f \in DOMAIN d |->
       IF f \in fs /\ Truthy(f, Extracted(1, f, sub, c[f]))
       THEN Extracted(1, f, sub, c[f]) ELSE d[f]]

V1Filled(fs, sub, c) == {f \in fs : Truthy(f, Extracted(1, f, sub, c[f]))}

\* parse_page: the about-like subpage, fetched when year_founded,
\* fields_of_work or operational_areas is missing and a link text matches
V1About ==
    /\ pc = "about"
    /\ LET want == missing \cap V1AboutFields
           i == V1FindLink(soup, V1AboutKeywords)
       IN  IF want = {} \/ i = 0
           THEN UNCHANGED <<data, missing, fetched>>
           ELSE \E r \in FetchResults(SubInputs) :
                  /\ fetched' = Append(fetched,
                                       Fetch("sub", soup.links[i].href, r))
                  /\ data' = IF r.ok THEN V1Fill(data, want, r.page, Custom)
                             ELSE data
                  /\ missing' = IF r.ok
                                THEN missing \ V1Filled(want, r.page, Custom)
                                ELSE missing
    /\ pc' = "contact"
    /\ UNCHANGED <<ver, pw, pwAvail, noFeedback, twin, entry, answer, customs, file, urlIdx, soup,
                   seedData, subpages, pdfs, subIdx, rounds, saved, exc>>

\* parse_page: the contact subpage, fetched when contact_info is missing;
\* then return data
V1Contact ==
    /\ pc = "contact"
    /\ LET want == missing \cap {"contact_info"}
           i == V1FindLink(soup, V1ContactKeywords)
       IN  IF want = {} \/ i = 0
           THEN UNCHANGED <<data, missing, fetched>>
           ELSE \E r \in FetchResults(SubInputs) :
                  /\ fetched' = Append(fetched,
                                       Fetch("sub", soup.links[i].href, r))
                  /\ data' = IF r.ok THEN V1Fill(data, want, r.page, Custom)
                             ELSE data
                  /\ missing' = IF r.ok
                                THEN missing \ V1Filled(want, r.page, Custom)
                                ELSE missing
    /\ pc' = "feedback"
    /\ UNCHANGED <<ver, pw, pwAvail, noFeedback, twin, entry, answer, customs, file, urlIdx, soup,
                   seedData, subpages, pdfs, subIdx, rounds, saved, exc>>

\* handle_feedback up to its loop
FeedbackEnter ==
    /\ pc = "feedback"
    /\ missing' = Missing(data)
    /\ pc' = IF Missing(data) = {} \/ noFeedback THEN "return" ELSE "fbloop"
    /\ entry' = IF Missing(data) = {} \/ noFeedback THEN entry
                ELSE [on |-> TRUE, data |-> data, custom |-> Custom]
    /\ UNCHANGED <<ver, pw, pwAvail, noFeedback, twin, answer, customs, file, urlIdx, soup,
                   data, seedData, subpages, pdfs, subIdx, rounds, saved, exc,
                   fetched>>

\* what the user can type for the field and for the selector
FeedbackFields == Fields \cup {"website_url", "founded"}
FeedbackSelectors == Selectors \cup {"#gone"}

\* the round writes the selector: the field has an extractor, the extractor
\* run with the selector found something, and the user said y to "Update
\* and save this selector?"
FeedbackAcceptsUnasked(f, sel, upd, s) ==
    f \in Fields /\ Truthy(f, Extracted(1, f, s, sel))
FeedbackAccepts(f, sel, upd, s) ==
    f \in Fields /\ upd /\ Truthy(f, Extracted(1, f, s, sel))

\* one turn of the loop of handle_feedback with the answer y: a field, a
\* selector, and the answer to "Update and save this selector?"
FeedbackRound ==
    /\ pc = "fbloop"
    /\ rounds < MaxRounds
    /\ rounds' = rounds + 1
    /\ \E f \in FeedbackFields, sel \in FeedbackSelectors, upd \in BOOLEAN :
          /\ answer' = [field |-> f, selector |-> sel, update |-> upd]
          /\ IF FeedbackAccepts(f, sel, upd, soup)
             THEN /\ customs' = [customs EXCEPT ![Domain][f] = sel]
                  /\ file' = customs'
                  /\ data' = [data EXCEPT ![f] = Extracted(1, f, soup, sel)]
                  /\ missing' = missing \ {f}
             ELSE UNCHANGED <<customs, file, data, missing>>
    /\ UNCHANGED <<ver, pw, pwAvail, noFeedback, twin, entry, pc, urlIdx, soup, seedData,
                   subpages, pdfs, subIdx, saved, exc, fetched>>

\* the user answers n: return data
FeedbackStop ==
    /\ pc = "fbloop"
    /\ pc' = "return"
    /\ answer' = NoAnswer
    /\ UNCHANGED <<ver, pw, pwAvail, noFeedback, twin, entry, customs, file, urlIdx, soup,
                   data, seedData, subpages, pdfs, subIdx, missing, rounds,
                   saved, exc, fetched>>

Next ==
    \/ Start
    \/ FetchSeed
    \/ JsonLd
    \/ SeedExtract
    \/ V1SeedExtract
    \/ V1About
    \/ V1Contact
    \/ FeedbackEnter
    \/ Discover
    \/ SubPage
    \/ PdfPass
    \/ Save
    \/ Finish

Spec == Init /\ [][Next]_vars

\* v1 with the feedback loop
NextFeedback ==
    \/ Start
    \/ FetchSeed
    \/ V1SeedExtract
    \/ V1About
    \/ V1Contact
    \/ FeedbackEnter
    \/ FeedbackRound
    \/ FeedbackStop
    \/ Save
    \/ Finish

SpecFeedback == InitFeedback /\ [][NextFeedback]_vars

\* v2, v3 up to link discovery, and the link discovery of a second run on
\* the same seed page
NextTwin ==
    \/ Start
    \/ FetchSeed
    \/ JsonLd
    \/ SeedExtract
    \/ Discover
    \/ DiscoverTwin

SpecTwin == InitTwin /\ [][NextTwin]_vars

\* ------------------------------------------------------------- properties
\* the run is past the seed-page pass of the current seed
AfterSeedPass ==
    pc \in {"discover", "sub", "pdf", "about", "contact", "feedback", "return"}

RECURSIVE Concat(_)
Concat(ss) == IF ss = <<>> THEN <<>> ELSE Head(ss) \o Concat(Tail(ss))

\* the items of the JSON-LD scripts of a page that parse, in document order
AllItems(s) == Concat([i \in 1..Len(s.jsonld) |-> s.jsonld[i].items])

Matches(v, it) ==
    it.isDict /\ it.type \in (IF v = 2 THEN V2Types ELSE V3Types)

\* the matching blocks that carry a founding date
DatedItems(v, s) ==
    SelectSeq(AllItems(s), LAMBDA it : Matches(v, it) /\ it.fd.has)

\* every block is an object, and every matching block has a string for its
\* founding date and objects (v2: or a plain string) for its areas
ValidMetadata(v, s) ==
    \A i \in 1..Len(AllItems(s)) :
       LET it == AllItems(s)[i]
       IN  /\ it.isDict
           /\ Matches(v, it) =>
                 /\ it.fd.isStr
                 /\ it.area.kind \in
                       {"absent", "list", "dict"}
                           \cup (IF v = 2 THEN {"str"} ELSE {})

\* the seed page carries valid metadata whose last dated matching block has
\* a non-empty founding date
HasJsonDate ==
    /\ ver \in {2, 3}
    /\ ValidMetadata(ver, soup)
    /\ DatedItems(ver, soup) # <<>>
    /\ DatedItems(ver, soup)[Len(DatedItems(ver, soup))].fd.v # <<>>

JsonDate == DatedItems(ver, soup)[Len(DatedItems(ver, soup))].fd.v

\* C1: when the seed page carries a matching JSON-LD block with a founding
\* date, year_founded is the first four characters of that date (the last
\* such block wins), from the JSON-LD step to the end of the seed's run:
\* neither the page heuristics nor a subpage nor a document overwrites it.
C1_JsonLdYearKept ==
    (pc \in {"seed", "discover", "sub", "pdf", "return"} /\ HasJsonDate)
        => data.year_founded = Take(JsonDate, 4)

\* the seed page, a fetched subpage and the fetched document all have a
\* year for the heuristics, and the record still has the JSON-LD year
C1_Witness ==
    /\ pc = "return"
    /\ HasJsonDate
    /\ ExtractYear(ver, soup, "") # <<>>
    /\ Len(fetched) >= 3
    /\ fetched[2].kind = "sub" /\ fetched[2].ok
    /\ ExtractYear(ver, fetched[2].page, "") # <<>>
    /\ fetched[Len(fetched)].kind = "pdf"
    /\ extract_from_pdf(fetched[Len(fetched)]) # <<>>
    /\ data.year_founded = Take(JsonDate, 4)

\* C2: a field resolved at the end of the seed-page pass keeps its value
\* through the subpage and document passes; for contact_info every sub-key
\* present at the end of the seed-page pass keeps its value.
C2_ResolvedFieldsKept ==
    AfterSeedPass =>
       /\ \A f \in Fields \ {"contact_info"} :
             Truthy(f, seedData[f]) => data[f] = seedData[f]
       /\ ContactTruthy(seedData.contact_info) =>
             /\ seedData.contact_info.email # "" =>
                   data.contact_info.email = seedData.contact_info.email
             /\ seedData.contact_info.phone # "" =>
                   data.contact_info.phone = seedData.contact_info.phone
             /\ seedData.contact_info.address # <<>> =>
                   data.contact_info.address = seedData.contact_info.address

\* the year of the record does not come from JSON-LD
YearByHeuristic ==
    /\ data.year_founded # <<>>
    /\ ~(ver \in {2, 3} /\ extract_from_json_ld(ver, soup).year.v # <<>>)

\* C3: a year_founded resolved by a heuristic (page text, override or
\* document) is four digits between 1900 and the current year.
C3_HeuristicYearValid ==
    (AfterSeedPass /\ YearByHeuristic) =>
       /\ Len(data.year_founded) = 4
       /\ IsDigits(data.year_founded)
       /\ InRange(data.year_founded)

EmailOnly(c) == ContactTruthy(c) /\ c.email # "" /\ c.phone = ""
PhoneOnly(c) == ContactTruthy(c) /\ c.email = "" /\ c.phone # ""

\* the i-th fetch of the seed's run is a subpage that was fetched
FetchedSub(i) ==
    Len(fetched) >= i /\ fetched[i].kind = "sub" /\ fetched[i].ok

\* C4: the seed page has no contact data, the first fetched subpage supplies
\* only an e-mail and the second only a phone: the run goes on, and the
\* record has both after the subpage pass.
C4_TwoSubpagesMerge ==
    (/\ ver \in {2, 3}
     /\ ~pw
     /\ ~ContactTruthy(seedData.contact_info)
     /\ FetchedSub(2)
     /\ EmailOnly(ExtractContact(ver, fetched[2].page, "")))
    => /\ pc # "crashed"
       /\ (/\ FetchedSub(3)
           /\ PhoneOnly(ExtractContact(ver, fetched[3].page, ""))
           /\ pc \in {"pdf", "return"})
          => /\ data.contact_info.email
                   = ExtractContact(ver, fetched[2].page, "").email
             /\ data.contact_info.phone
                   = ExtractContact(ver, fetched[3].page, "").phone

\* a page with nothing on it for any extractor (links apart)
NoData(p) ==
    /\ p.title = NoTitle
    /\ ~p.h1.has
    /\ p.jsonld = <<>>
    /\ p.secs = <<>>
    /\ p.elems = NoElems
    /\ ~p.hasSelect

\* the seed page was fetched, and neither it nor anything fetched after it
\* has any data
NoDataAnywhere ==
    /\ fetched # <<>>
    /\ fetched[1].ok
    /\ NoData(soup)
    /\ \A i \in 2..Len(fetched) :
          /\ fetched[i].kind = "sub" => NoData(fetched[i].page)
          /\ fetched[i].kind = "pdf" => extract_from_pdf(fetched[i]) = <<>>

\* C5: with no data on the seed page, the subpages and the document, and
\* feedback disabled, the run of the seed ends normally with every field of
\* the record empty, also when subpages are fetched.
C5_EmptyRunTerminates ==
    (noFeedback /\ ~pw /\ NoDataAnywhere /\ pc \notin {"start", "next"})
    => /\ pc # "crashed"
       /\ pc = "return" => Missing(data) = Fields

\* the override of year_founded names an element of the page whose text is
\* "Est. 1998"
EstOverride(p) ==
    /\ Custom["year_founded"] = "#est"
    /\ HasElem(p, "#est")
    /\ Select(p, "#est")[1].s = "Est. 1998"

\* JSON-LD supplies the field on the seed page
JsonSupplies(f) ==
    /\ ver \in {2, 3}
    /\ LET jd == extract_from_json_ld(ver, soup)
       IN  CASE f = "ngo_name" -> jd.name.v # ""
             [] f = "year_founded" -> jd.year.v # <<>>
             [] f = "operational_areas" -> jd.areas.v # {}
             [] OTHER -> FALSE

\* C6: with an override for year_founded whose element reads "Est. 1998",
\* year_founded is "1998", on the seed page and on a subpage alike, whatever
\* the page-wide heuristics would find.
C6_OverrideYear ==
    /\ (AfterSeedPass /\ EstOverride(soup) /\ ~JsonSupplies("year_founded"))
          => data.year_founded = Y("1", "9", "9", "8")
    /\ (/\ ver \in {2, 3}
        /\ pc \in {"sub", "pdf", "return"}
        /\ seedData.year_founded = <<>>
        /\ FetchedSub(2)
        /\ EstOverride(fetched[2].page))
          => data.year_founded = Y("1", "9", "9", "8")

\* C7: a field with an override whose selector matches no element of the
\* seed page is absent at the end of the seed-page pass: no heuristic
\* fallback fills it.
C7_NoFallbackUnderOverride ==
    AfterSeedPass =>
       \A f \in Fields :
          (/\ Custom[f] # ""
           /\ Select(soup, Custom[f]) = <<>>
           /\ ~JsonSupplies(f))
          => ~Truthy(f, seedData[f])

\* what the keyword-labelled list heuristic of fields_of_work returns
KeywordList(v, s) ==
    IF v = 1 THEN V1KeywordList(s.secs, V1FieldKeywords).items
    ELSE IF v = 2 THEN V2KeywordList(s.secs, V2FieldKeywords)
    ELSE V3KeywordList(s.secs, V3FieldKeywords)

\* C8: a fields_of_work resolved by the keyword-labelled list heuristic has
\* at least two items.
C8_KeywordListAtLeastTwo ==
    (/\ AfterSeedPass
     /\ Custom["fields_of_work"] = ""
     /\ KeywordList(ver, soup) # <<>>)
    => /\ seedData.fields_of_work = KeywordList(ver, soup)
       /\ Len(seedData.fields_of_work) >= 2

\* C9: when the fetch of the document fails while year_founded is
\* unresolved, the step ends normally (parse_ngo returns, no exception) and
\* year_founded stays absent.
C9_PdfFailureTolerated ==
    [][(/\ pc = "pdf"
        /\ data.year_founded = <<>>
        /\ Len(fetched') = Len(fetched) + 1
        /\ ~fetched'[Len(fetched')].ok)
       => (/\ pc' = "return"
           /\ exc' = ""
           /\ data'.year_founded = <<>>)]_vars

\* a run that has returned from a failed document fetch with no year
C9_Witness ==
    /\ pc = "return"
    /\ ver \in {2, 3}
    /\ fetched[Len(fetched)].kind = "pdf"
    /\ ~fetched[Len(fetched)].ok
    /\ data.year_founded = <<>>
    /\ exc = ""

\* C10: no exception ends the run: whatever the pages hold and whichever
\* fetch fails, the process goes on to the next seed URL.
C10_NoAbort == exc = "" /\ pc # "crashed"

\* the last element of a sequence that is not empty
LastOf(q) == q[Len(q)]

\* the matching blocks of a page that carry a name
NamedItems(v, s) ==
    SelectSeq(AllItems(s), LAMBDA it : Matches(v, it) /\ it.name.has)

\* the matching blocks whose service-area objects name at least one area
AreaItems(v, s) ==
    SelectSeq(AllItems(s),
              LAMBDA it : /\ Matches(v, it)
                          /\ it.area.kind \in {"list", "dict"}
                          /\ NonEmpty(it.area.names) # <<>>)

\* the contact points of the matching blocks, in document order
ContactPoints(v, s) ==
    SelectSeq(Concat([i \in 1..Len(AllItems(s)) |->
                        IF Matches(v, AllItems(s)[i])
                        THEN AllItems(s)[i].cp ELSE <<>>]),
              LAMBDA c : c.type = "ContactPoint")

CpEmails(v, s) == SelectSeq(ContactPoints(v, s), LAMBDA c : c.email # "")
CpPhones(v, s) == SelectSeq(ContactPoints(v, s), LAMBDA c : c.tel # "")

\* the name and the service areas of the structured metadata are in the
\* record
JsonNameAndAreasKept ==
    (/\ ver \in {2, 3}
     /\ pc \in {"discover", "sub", "pdf", "return"}
     /\ ValidMetadata(ver, soup))
    => /\ NamedItems(ver, soup) # <<>> =>
             data.ngo_name = LastOf(NamedItems(ver, soup)).name.v
       /\ AreaItems(ver, soup) # <<>> =>
             data.operational_areas
                = SeqToSet(NonEmpty(LastOf(AreaItems(ver, soup)).area.names))

\* the e-mail and the telephone of the contact points are the contact of
\* the record
JsonContactKept ==
    (/\ ver \in {2, 3}
     /\ pc \in {"discover", "sub", "pdf", "return"}
     /\ ValidMetadata(ver, soup))
    => /\ CpEmails(ver, soup) # <<>> =>
             data.contact_info.email = LastOf(CpEmails(ver, soup)).email
       /\ CpPhones(ver, soup) # <<>> =>
             data.contact_info.phone = LastOf(CpPhones(ver, soup)).tel

\* C11: a name, a service-area list and a contact-point e-mail / telephone
\* of a matching JSON-LD block of the seed page are the name, the
\* operational_areas and the contact e-mail / phone of the record; the
\* heuristics of the seed page and the later passes do not replace them.
C11_JsonLdFieldsKept == JsonNameAndAreasKept /\ JsonContactKept

\* the step is a feedback round
IsFeedbackRound == pc = "fbloop" /\ rounds' = rounds + 1

\* the round just made found a value with the selector and the user
\* confirmed the update
ConfirmedRound ==
    /\ answer'.field \in Fields
    /\ answer'.update
    /\ Truthy(answer'.field, Extracted(1, answer'.field, soup, answer'.selector))

\* C12: in the feedback rounds of v1, an entry (domain, field) of the
\* override store is created or overwritten only in a round where the
\* extractor run with the selector returned a non-empty value and the user
\* confirmed; that round writes the whole store to the file.  Every other
\* round, and every other step after the store is loaded, leaves the store
\* and the file as they are; no entry is ever deleted.
C12_StoreWrittenOnConfirmedRound ==
    [][/\ IsFeedbackRound =>
             IF ConfirmedRound
             THEN /\ customs' = [customs EXCEPT
                                   ![Domain][answer'.field] = answer'.selector]
                  /\ file' = customs'
             ELSE customs' = customs /\ file' = file
       /\ (pc # "start" /\ ~IsFeedbackRound) =>
             customs' = customs /\ file' = file
       /\ \A d \in Domains, f \in Fields :
             /\ customs[d][f] # "" => customs'[d][f] # ""
             /\ file[d][f] # "" => file'[d][f] # ""]_vars

\* a confirmed round has written the entry of year_founded for the domain
\* of the first seed, and the file has the whole store
C12_Witness ==
    /\ pc = "fbloop"
    /\ rounds >= 1
    /\ urlIdx = 1
    /\ answer.update
    /\ answer.field = "year_founded"
    /\ customs["a.org"]["year_founded"] = answer.selector
    /\ file = customs

\* C13: two runs on the same seed page with the same content and the same
\* overrides consult the same subpages and the same documents in the same
\* order, also when there are more links than the caps.
C13_SameResolutionOrder ==
    twin.ran =>
       /\ Take(subpages, MaxSub) = Take(twin.subpages, MaxSub)
       /\ Take(pdfs, MaxPdf) = Take(twin.pdfs, MaxPdf)

\* the fields the subpage pass is for
EnrichedFields ==
    {"year_founded", "fields_of_work", "operational_areas", "contact_info"}

AllResolved(d) == \A f \in EnrichedFields : Truthy(f, d[f])

\* this step fetches a subpage
SubpageFetch ==
    /\ Len(fetched') = Len(fetched) + 1
    /\ fetched'[Len(fetched')].kind = "sub"

\* C14: a subpage is fetched only while one of year_founded, fields_of_work,
\* operational_areas and contact is unresolved: none when the seed page
\* resolved them all, no second one when the first resolved the rest.
C14_SubpageOnlyWhenUnresolved ==
    [][SubpageFetch => ~AllResolved(data)]_vars

\* this step fetches a document
DocumentFetch ==
    /\ Len(fetched') = Len(fetched) + 1
    /\ fetched'[Len(fetched')].kind = "pdf"

\* C15: a document is fetched only if year_founded is unresolved at the end
\* of the subpage pass.
C15_DocumentOnlyWhenYearUnresolved ==
    [][DocumentFetch => data.year_founded = <<>>]_vars

\* the selector the subpage pass hands to an extractor: the stored override
\* in v2, none in v3
SubSelector(f) == IF ver = 2 THEN Custom[f] ELSE ""

\* the field's extractor finds a value on the i-th fetched page
SubpageOffers(i, f) ==
    /\ FetchedSub(i)
    /\ Truthy(f, Extracted(ver, f, fetched[i].page, SubSelector(f)))

\* C16: once the subpage pass of v2 or v3 is over, each of year_founded,
\* fields_of_work, operational_areas and contact for which a fetched subpage
\* has a value its extractor accepts is resolved in the record.
C16_SubpagesResolveEachField ==
    (ver \in {2, 3} /\ pc \in {"pdf", "return"}) =>
       \A i \in 1..Len(fetched), f \in EnrichedFields :
          SubpageOffers(i, f) => Truthy(f, data[f])

\* C17: during and after the feedback rounds of v1, a field that was resolved
\* when handle_feedback started has the value it had then, and the overrides
\* in memory and on disk hold for it what they held then.
C17_FeedbackKeepsResolvedFields ==
    (entry.on /\ pc \in {"fbloop", "return"}) =>
       \A f \in Fields :
          Truthy(f, entry.data[f]) =>
             /\ data[f] = entry.data[f]
             /\ customs[Domain][f] = entry.custom[f]
             /\ file[Domain][f] = entry.custom[f]

\* the fetches of one kind in the run for the current seed
FetchesOf(kind) == {i \in 1..Len(fetched) : fetched[i].kind = kind}

\* seed before subpages before documents
FetchRank(kind) ==
    CASE kind = "seed" -> 0
      [] kind = "sub" -> 1
      [] kind = "pdf" -> 2

\* C18: in the run for one seed at most 2 subpages and at most 1 document are
\* fetched, whatever number of links was found, and the fetches come one
\* after another: the seed first, then the subpages, then the document.
C18_BoundedSequentialFetches ==
    /\ Cardinality(FetchesOf("seed")) <= 1
    /\ Cardinality(FetchesOf("sub")) <= 2
    /\ Cardinality(FetchesOf("pdf")) <= 1
    /\ \A i, j \in 1..Len(fetched) :
          i < j => FetchRank(fetched[i].kind) <= FetchRank(fetched[j].kind)
    /\ fetched # <<>> => fetched[1].kind = "seed"

\* more links than the caps were found, and two subpages and a document have
\* been fetched
C18_Witness ==
    /\ pc = "return"
    /\ Len(subpages) > 2
    /\ Cardinality(FetchesOf("sub")) = 2
    /\ Cardinality(FetchesOf("pdf")) = 1
====
